---- MODULE Spec2Model ----
(***************************************************************************)
(* Milestone tracking of the Scrapyard leaderboard bot (src/index.js).     *)
(*                                                                         *)
(* The process schedules checkMilestones on a cron job that fires every    *)
(* minute and also runs it once at startup.  checkMilestones is an async   *)
(* function: every `await` (the warehouse query, each query on the         *)
(* milestone database, the Slack post) is a point at which another         *)
(* invocation may run.  One action below is one such step of one           *)
(* invocation.                                                             *)
(***************************************************************************)
EXTENDS Integers, Sequences, FiniteSets

(***************************** bounds **************************************)
\* Minutes of wall-clock time the model follows (the cron job fires once
\* per minute).
MaxTime == 2
\* Collaborator calls (warehouse query, milestone queries, Slack post) that
\* may fail in one behaviour.
MaxFaults == 1
\* Largest argument of getNextMilestone tried in SpecFn.
MaxArg == 130

\* GLOBAL_EVENT_START, in minutes after process start.
Cutoff == 2

\* The events of the warehouse, in the order of ORDER BY event_name ASC.
EventOrder == <<"a", "b">>
Events == {EventOrder[i] : i \in 1..Len(EventOrder)}

\* total_sign_ups values the warehouse may report; 0 stands for an event the
\* query does not return (WHERE total_sign_ups > 0).
Counts == [a |-> {9, 45, 52, 61, 85, 100, 120, 140}, b |-> {0, 61}]

NoRecord == [count |-> -1]
NULL == -1

VARIABLES
    now,        \* minutes since process start
    phase,      \* position of the startup function
    scheduled,  \* the cron jobs exist
    store,      \* event_tracking: event_name -> row, or NoRecord
    cyc,        \* the invocations of checkMilestones
    sent,       \* per event, the counts of the milestone messages delivered
    lastSnap,   \* the rows the latest completed warehouse query returned
    faults,     \* collaborator failures so far
    arg, res    \* an argument of getNextMilestone and the value returned

vars == <<now, phase, scheduled, store, cyc, sent, lastSnap, faults, arg, res>>

CycleIds == 0..MaxTime

(************************ pure functions ***********************************)
\* Mutant: the divisor switches above 50 instead of at 50.
getNextMilestone_SwitchAbove50(totalRegistrations) ==
    IF totalRegistrations <= 50
    THEN (totalRegistrations \div 10) * 10
    ELSE (totalRegistrations \div 20) * 20

\* Mutant: from 50 on, a milestone every 30.
getNextMilestone_Every30From50(totalRegistrations) ==
    IF totalRegistrations < 50
    THEN (totalRegistrations \div 10) * 10
    ELSE (totalRegistrations \div 30) * 30

\* Mutant: below 50, a milestone every 25.
getNextMilestone_Every25Below50(totalRegistrations) ==
    IF totalRegistrations < 50
    THEN (totalRegistrations \div 25) * 25
    ELSE (totalRegistrations \div 20) * 20

getNextMilestone(totalRegistrations) ==
    IF totalRegistrations < 50
    THEN (totalRegistrations \div 10) * 10
    ELSE (totalRegistrations \div 20) * 20

\* Mutant: the 20% rule is left out.
shouldNotify_NoDampening(lastMilestoneNotified, currentCount) ==
    getNextMilestone(currentCount) > lastMilestoneNotified

\* lastMilestoneNotified * 1.2 is a double; for the integers compared here
\* currentMilestone >= lastMilestoneNotified * 1.2 decides as the exact
\* 10 * currentMilestone >= 12 * lastMilestoneNotified does.
shouldNotify(lastMilestoneNotified, currentCount) ==
    LET currentMilestone == getNextMilestone(currentCount)
        crossedNewMilestone == currentMilestone > lastMilestoneNotified
    IN  IF lastMilestoneNotified >= 50 /\ crossedNewMilestone
        THEN 10 * currentMilestone >= 12 * lastMilestoneNotified
        ELSE crossedNewMilestone

\* Mutant: the cutoff instant itself does not count as started.
hasEventStartedGlobally_After(t) == t > Cutoff

\* new Date() >= GLOBAL_EVENT_START, at minute t.
hasEventStartedGlobally(t) == t >= Cutoff

\* The rows fetchAllEventsData returns for a state of the warehouse.  Every row
\* has a name and a positive count, so the loop's two `continue` guards
\* (no name, no signups) pass every row on.
Rows(snap) == SelectSeq(EventOrder, LAMBDA e : snap[e] > 0)

Snapshots ==
    {s \in [Events -> UNION {Counts[e] : e \in Events}] :
        \A e \in Events : s[e] \in Counts[e]}
NoSnapshot == [e \in Events |-> 0]

(************************ invocations **************************************)
\* pc: the await the invocation is at; snap, idx: the rows and the loop
\* position; rerun: the rows equal those of the query completed just before.
IdleCycle == [pc |-> "idle", snap |-> NoSnapshot, idx |-> 0, rerun |-> FALSE]

CurEvent(c) == Rows(cyc[c].snap)[cyc[c].idx]
CurCount(c) == cyc[c].snap[CurEvent(c)]

\* A collaborator call succeeds or, within the fault budget, fails.
Outcome(ok) ==
    /\ ok \in BOOLEAN
    /\ IF ok THEN faults' = faults
             ELSE faults < MaxFaults /\ faults' = faults + 1

\* The for loop moves to the next row, or the function returns.
NextRow(r) ==
    IF r.idx < Len(Rows(r.snap))
    THEN [r EXCEPT !.pc = "select", !.idx = r.idx + 1]
    ELSE [IdleCycle EXCEPT !.pc = "done"]

\* Mutant: a failed write is not caught in the loop body.
AfterWrite_Uncaught(r, ok) ==
    IF ok THEN NextRow(r) ELSE [r EXCEPT !.pc = "failed"]

\* The try/catch around each write (and around the post with its update):
\* the error is logged and the loop goes on, as it does after a success.
AfterWrite(r, ok) == NextRow(r)

\* checkMilestones, called at minute t, up to its first await.
Begin(t) ==
    IF hasEventStartedGlobally(t)
    THEN [IdleCycle EXCEPT !.pc = "skipped"]
    ELSE [IdleCycle EXCEPT !.pc = "fetch"]

(************************ startup and schedule *****************************)
Startup ==
    /\ phase = "boot"
    /\ IF hasEventStartedGlobally(now)
       THEN phase' = "nojobs" /\ scheduled' = FALSE
       ELSE phase' = "verify" /\ scheduled' = TRUE
    /\ UNCHANGED <<now, store, cyc, sent, lastSnap, faults, arg, res>>

InitialRun ==
    /\ phase = "verify"
    /\ phase' = "running"
    /\ cyc' = [cyc EXCEPT ![0] = Begin(now)]
    /\ UNCHANGED <<now, scheduled, store, sent, lastSnap, faults, arg, res>>

\* A minute passes; the milestone job, if scheduled, calls checkMilestones
\* without waiting for earlier invocations.
CronTick ==
    /\ now < MaxTime
    /\ now' = now + 1
    /\ cyc' = IF scheduled THEN [cyc EXCEPT ![now + 1] = Begin(now + 1)]
                           ELSE cyc
    /\ UNCHANGED <<phase, scheduled, store, sent, lastSnap, faults, arg, res>>

(************************ checkMilestones **********************************)
\* Mutant: when the query throws, the invocation goes on with the rows of
\* the latest successful fetch.
Fetch_StaleOnFailure(c) ==
    /\ cyc[c].pc = "fetch"
    /\ \E ok \in BOOLEAN, snap \in Snapshots :
        /\ Outcome(ok)
        /\ LET got == IF ok THEN snap ELSE lastSnap
           IN  cyc' = [cyc EXCEPT ![c] =
                   IF Len(Rows(got)) = 0
                   THEN [@ EXCEPT !.pc = "done"]
                   ELSE [@ EXCEPT !.pc = "select", !.snap = got, !.idx = 1,
                                  !.rerun = (got = lastSnap)]]
               /\ lastSnap' = got
    /\ UNCHANGED <<now, phase, scheduled, store, sent, arg, res>>

\* await fetchAllEventsData(): the rows, or [] when the query throws.
Fetch(c) ==
    /\ cyc[c].pc = "fetch"
    /\ \E ok \in BOOLEAN, snap \in Snapshots :
        /\ Outcome(ok)
        /\ LET got == IF ok THEN snap ELSE NoSnapshot
           IN  cyc' = [cyc EXCEPT ![c] =
                   IF Len(Rows(got)) = 0
                   THEN [@ EXCEPT !.pc = "done"]
                   ELSE [@ EXCEPT !.pc = "select", !.snap = got, !.idx = 1,
                                  !.rerun = (got = lastSnap)]]
               /\ lastSnap' = got
    /\ UNCHANGED <<now, phase, scheduled, store, sent, arg, res>>

\* Mutant: a tracked event with nothing to announce is updated even when
\* its count has not changed.
Decide_AlwaysUpdate(r, row, currentCount) ==
    IF row = NoRecord
    THEN [r EXCEPT !.pc = "insert"]
    ELSE IF shouldNotify(row.milestone, currentCount) /\ currentCount >= 10
    THEN [r EXCEPT !.pc = "post"]
    ELSE [r EXCEPT !.pc = "updateCount"]

\* Mutant: a first sighting is announced like a crossing.
Decide_PostOnFirstSighting(r, row, currentCount) ==
    IF row = NoRecord \/ (shouldNotify(row.milestone, currentCount)
                           /\ currentCount >= 10)
    THEN [r EXCEPT !.pc = "post"]
    ELSE IF currentCount # row.count
    THEN [r EXCEPT !.pc = "updateCount"]
    ELSE NextRow(r)

\* What the loop body does with the row it read, up to its next await.
Decide(r, row, currentCount) ==
    IF row = NoRecord
    THEN [r EXCEPT !.pc = "insert"]
    ELSE IF shouldNotify(row.milestone, currentCount) /\ currentCount >= 10
    THEN [r EXCEPT !.pc = "post"]
    ELSE IF currentCount # row.count
    THEN [r EXCEPT !.pc = "updateCount"]
    ELSE NextRow(r)

\* await SELECT * FROM event_tracking WHERE event_name = ...; a failure is
\* thrown to the catch around the whole loop.
Select(c) ==
    /\ cyc[c].pc = "select"
    /\ \E ok \in BOOLEAN :
        /\ Outcome(ok)
        /\ cyc' = [cyc EXCEPT ![c] =
                IF ok THEN Decide(@, store[CurEvent(c)], CurCount(c))
                      ELSE [@ EXCEPT !.pc = "failed"]]
    /\ UNCHANGED <<now, phase, scheduled, store, sent, lastSnap, arg, res>>

\* Mutant: the first sighting is stamped as notified.
InsertedRow_Notified(c) ==
    [count |-> CurCount(c), milestone |-> getNextMilestone(CurCount(c)),
     notified_at |-> now, updated_at |-> now]

\* Mutant: a first sighting stores the milestone the event reaches next.
InsertedRow_MilestoneAhead(c) ==
    [count |-> CurCount(c), milestone |-> getNextMilestone(CurCount(c)) + 10,
     notified_at |-> NULL, updated_at |-> now]

InsertedRow(c) ==
    [count |-> CurCount(c), milestone |-> getNextMilestone(CurCount(c)),
     notified_at |-> NULL, updated_at |-> now]

\* Mutant: an INSERT for an event that has a row replaces the row.
Insert_Upsert(c) ==
    /\ cyc[c].pc = "insert"
    /\ \E ok \in BOOLEAN :
        /\ Outcome(ok)
        /\ store' = IF ok
                    THEN [store EXCEPT ![CurEvent(c)] = InsertedRow(c)]
                    ELSE store
        /\ cyc' = [cyc EXCEPT ![c] = AfterWrite(@, ok)]
    /\ UNCHANGED <<now, phase, scheduled, sent, lastSnap, arg, res>>

\* await INSERT INTO event_tracking ...; event_name is the primary key.
Insert(c) ==
    /\ cyc[c].pc = "insert"
    /\ \E ok \in BOOLEAN :
        /\ Outcome(ok)
        /\ store' = IF ok /\ store[CurEvent(c)] = NoRecord
                    THEN [store EXCEPT ![CurEvent(c)] = InsertedRow(c)]
                    ELSE store
        /\ cyc' = [cyc EXCEPT ![c] =
                AfterWrite(@, ok /\ store[CurEvent(c)] = NoRecord)]
    /\ UNCHANGED <<now, phase, scheduled, sent, lastSnap, arg, res>>

\* Mutant: the message is formatted with the milestone, not the count.
Post_SendsMilestone(c) ==
    /\ cyc[c].pc = "post"
    /\ \E ok \in BOOLEAN :
        /\ Outcome(ok)
        /\ IF ok
           THEN /\ sent' = [sent EXCEPT ![CurEvent(c)] =
                                Append(@, getNextMilestone(CurCount(c)))]
                /\ cyc' = [cyc EXCEPT ![c].pc = "updateMilestone"]
           ELSE /\ sent' = sent
                /\ cyc' = [cyc EXCEPT ![c] = AfterWrite(@, FALSE)]
    /\ UNCHANGED <<now, phase, scheduled, store, lastSnap, arg, res>>

\* Mutant: the UPDATE is issued whether or not the post succeeded.
Post_PersistsAnyway(c) ==
    /\ cyc[c].pc = "post"
    /\ \E ok \in BOOLEAN :
        /\ Outcome(ok)
        /\ sent' = IF ok
                   THEN [sent EXCEPT ![CurEvent(c)] = Append(@, CurCount(c))]
                   ELSE sent
        /\ cyc' = [cyc EXCEPT ![c].pc = "updateMilestone"]
    /\ UNCHANGED <<now, phase, scheduled, store, lastSnap, arg, res>>

\* await app.client.chat.postMessage(...); a failure is caught together
\* with the update that follows.
Post(c) ==
    /\ cyc[c].pc = "post"
    /\ \E ok \in BOOLEAN :
        /\ Outcome(ok)
        /\ IF ok
           THEN /\ sent' = [sent EXCEPT ![CurEvent(c)] = Append(@, CurCount(c))]
                /\ cyc' = [cyc EXCEPT ![c].pc = "updateMilestone"]
           ELSE /\ sent' = sent
                /\ cyc' = [cyc EXCEPT ![c] = AfterWrite(@, FALSE)]
    /\ UNCHANGED <<now, phase, scheduled, store, lastSnap, arg, res>>

\* Mutant: the UPDATE after a notification leaves last_known_count alone.
NotifiedRow_KeepCount(c, row) ==
    [row EXCEPT !.milestone = getNextMilestone(CurCount(c)),
                !.notified_at = now, !.updated_at = now]

\* Mutant: the UPDATE after a notification does not set last_notified_at.
NotifiedRow_NoStamp(c, row) ==
    [row EXCEPT !.count = CurCount(c),
                !.milestone = getNextMilestone(CurCount(c)),
                !.updated_at = now]

\* Mutant: the UPDATE after a notification leaves last_milestone_notified
\* alone.
NotifiedRow_KeepMilestone(c, row) ==
    [row EXCEPT !.count = CurCount(c),
                !.notified_at = now, !.updated_at = now]

NotifiedRow(c, row) ==
    [row EXCEPT !.count = CurCount(c),
                !.milestone = getNextMilestone(CurCount(c)),
                !.notified_at = now, !.updated_at = now]

\* await UPDATE event_tracking SET last_known_count, last_milestone_notified,
\* last_notified_at, last_updated_at.
UpdateMilestone(c) ==
    /\ cyc[c].pc = "updateMilestone"
    /\ \E ok \in BOOLEAN :
        /\ Outcome(ok)
        /\ store' = IF ok /\ store[CurEvent(c)] # NoRecord
                    THEN [store EXCEPT ![CurEvent(c)] = NotifiedRow(c, @)]
                    ELSE store
        /\ cyc' = [cyc EXCEPT ![c] = AfterWrite(@, ok)]
    /\ UNCHANGED <<now, phase, scheduled, sent, lastSnap, arg, res>>

\* Mutant: the count-only UPDATE also stores the milestone of the count.
CountedRow_WithMilestone(c, row) ==
    [row EXCEPT !.count = CurCount(c),
                !.milestone = getNextMilestone(CurCount(c)),
                !.updated_at = now]

\* Mutant: the count-only UPDATE leaves last_updated_at alone.
CountedRow_KeepStamp(c, row) ==
    [row EXCEPT !.count = CurCount(c)]

CountedRow(c, row) ==
    [row EXCEPT !.count = CurCount(c), !.updated_at = now]

\* await UPDATE event_tracking SET last_known_count, last_updated_at.
UpdateCount(c) ==
    /\ cyc[c].pc = "updateCount"
    /\ \E ok \in BOOLEAN :
        /\ Outcome(ok)
        /\ store' = IF ok /\ store[CurEvent(c)] # NoRecord
                    THEN [store EXCEPT ![CurEvent(c)] = CountedRow(c, @)]
                    ELSE store
        /\ cyc' = [cyc EXCEPT ![c] = AfterWrite(@, ok)]
    /\ UNCHANGED <<now, phase, scheduled, sent, lastSnap, arg, res>>

\* The table outlives the process (CREATE TABLE IF NOT EXISTS): at startup
\* an event has no row, or the row an earlier run inserted when it first saw
\* the event.
FirstSightings ==
    {[count |-> n, milestone |-> getNextMilestone(n),
      notified_at |-> NULL, updated_at |-> 0] :
        n \in UNION {Counts[e] : e \in Events} \ {0}}

(************************ specification ************************************)
Init ==
    /\ now = 0
    /\ phase = "boot"
    /\ scheduled = FALSE
    /\ store \in [Events -> {NoRecord} \cup FirstSightings]
    /\ \A e \in Events : store[e] # NoRecord => store[e].count \in Counts[e]
    /\ cyc = [c \in CycleIds |-> IdleCycle]
    /\ sent = [e \in Events |-> <<>>]
    /\ lastSnap = NoSnapshot
    /\ faults = 0
    /\ arg = 0
    /\ res = NULL

Next ==
    \/ Startup
    \/ InitialRun
    \/ CronTick
    \/ \E c \in CycleIds : Fetch(c)
    \/ \E c \in CycleIds : Select(c)
    \/ \E c \in CycleIds : Insert(c)
    \/ \E c \in CycleIds : Post(c)
    \/ \E c \in CycleIds : UpdateMilestone(c)
    \/ \E c \in CycleIds : UpdateCount(c)

Spec == Init /\ [][Next]_vars

(************************ a warehouse that stands still ********************)
\* The rows the warehouse query returns while no registration comes in.
Steady == [a |-> 140, b |-> 61]

\* await fetchAllEventsData() against that warehouse: the same rows every
\* time, or [] when the query throws.
FetchSteady(c) ==
    /\ Fetch(c)
    /\ lastSnap' \in {Steady, NoSnapshot}

\* A step of some invocation: the continuation of an await that has settled.
CycleStep ==
    \E c \in CycleIds :
        \/ FetchSteady(c)
        \/ Select(c)
        \/ Insert(c)
        \/ Post(c)
        \/ UpdateMilestone(c)
        \/ UpdateCount(c)

LiveNext ==
    \/ Startup
    \/ InitialRun
    \/ CronTick
    \/ CycleStep

\* Every await settles (the query, the statement or the post returns or
\* throws) and the event loop then runs its continuation.
SpecLive == Init /\ [][LiveNext]_vars /\ WF_vars(CycleStep)

(************************ getNextMilestone alone ***************************)
FnInit ==
    /\ now = 0
    /\ phase = "boot"
    /\ scheduled = FALSE
    /\ store = [e \in Events |-> NoRecord]
    /\ cyc = [c \in CycleIds |-> IdleCycle]
    /\ sent = [e \in Events |-> <<>>]
    /\ lastSnap = NoSnapshot
    /\ faults = 0
    /\ arg \in 0..MaxArg
    /\ res = NULL

FnApply ==
    /\ res = NULL
    /\ res' = getNextMilestone(arg)
    /\ UNCHANGED <<now, phase, scheduled, store, cyc, sent, lastSnap, faults, arg>>

SpecFn == FnInit /\ [][FnApply]_vars

(************************ properties ***************************************)
Writing == {"insert", "updateMilestone", "updateCount"}
InFlight == Writing \cup {"post"}
Active == InFlight \cup {"fetch", "select"}

\* Invocation c takes a step.
Steps(c) == cyc'[c] # cyc[c]

RowsLeft(c) == cyc[c].idx < Len(Rows(cyc[c].snap))

\* The notification rule as the specification words it.
NotifyRule(prev_milestone, count) ==
    LET m == getNextMilestone(count)
    IN  /\ m > prev_milestone
        /\ (prev_milestone < 50 \/ 10 * m >= 12 * prev_milestone)
        /\ count >= 10

\* The loop body posts for a stored row and a fresh count.
Posts(prev_count, prev_milestone, count) ==
    Decide(IdleCycle,
           [count |-> prev_count, milestone |-> prev_milestone,
            notified_at |-> NULL, updated_at |-> 0],
           count).pc = "post"

\* C1: for a tracked event, the invocation that read its row posts a
\* notification exactly when the milestone of the fresh count exceeds the
\* stored one, the stored one is below 50 or the new one is at least 1.2
\* times it, and the count is at least 10; (40, 61) and (80, 100) post,
\* a stored 95 with count 100 does not.
C1_NotifyIffRule ==
    /\ [][\A c \in CycleIds :
            (/\ cyc[c].pc = "select"
             /\ Steps(c)
             /\ cyc'[c].pc # "failed"
             /\ store[CurEvent(c)] # NoRecord)
            => ((cyc'[c].pc = "post")
                <=> NotifyRule(store[CurEvent(c)].milestone, CurCount(c)))]_vars
    /\ Posts(58, 40, 61)
    /\ Posts(95, 80, 100)
    /\ ~Posts(99, 95, 100)

C1_Witness ==
    \E c \in CycleIds :
        /\ cyc[c].pc = "post"
        /\ CurCount(c) = 100
        /\ store[CurEvent(c)] # NoRecord
        /\ store[CurEvent(c)].milestone = 80

\* C2: an invocation that finds no row for an event goes on to the INSERT
\* and from there to the next row without posting; the INSERT, unless it
\* fails, creates the row with the count, the milestone of that count and
\* no last_notified_at, and changes nothing otherwise.
C2_FirstSightingSilent ==
    [][\A c \in CycleIds :
        /\ (/\ cyc[c].pc = "select"
            /\ Steps(c)
            /\ cyc'[c].pc # "failed"
            /\ store[CurEvent(c)] = NoRecord)
           => cyc'[c].pc = "insert"
        /\ (cyc[c].pc = "insert" /\ Steps(c))
           => /\ sent' = sent
              /\ cyc'[c].pc \in {"select", "done"}
              /\ IF faults' = faults /\ store[CurEvent(c)] = NoRecord
                 THEN store' = [store EXCEPT ![CurEvent(c)] =
                          [count |-> CurCount(c),
                           milestone |-> getNextMilestone(CurCount(c)),
                           notified_at |-> NULL,
                           updated_at |-> now]]
                 ELSE store' = store]_vars

C2_Witness ==
    /\ store["a"] # NoRecord
    /\ store["a"].count = 85
    /\ store["a"].milestone = 80
    /\ store["a"].notified_at = NULL
    /\ store["a"].updated_at = 1
    /\ sent["a"] = <<>>
    /\ \E c \in CycleIds : cyc[c].pc = "select" /\ cyc[c].idx = 2

Milestones(counts) == [i \in 1..Len(counts) |-> getNextMilestone(counts[i])]

\* C3: the milestones of the notifications delivered for one event are
\* strictly increasing.
C3_NeverAnnouncedTwice ==
    \A e \in Events :
        \A i, j \in 1..Len(sent[e]) :
            i < j => Milestones(sent[e])[i] < Milestones(sent[e])[j]

\* C4: an invocation whose rows equal those of the invocation that queried
\* the warehouse just before it attempts no INSERT, no UPDATE and no post.
C4_RerunDoesNothing ==
    \A c \in CycleIds : cyc[c].rerun => cyc[c].pc \notin InFlight

\* C5: getNextMilestone returns the largest multiple of 10 not above a
\* count below 50 and the largest multiple of 20 not above a count of 50 or
\* more, with the values listed for 9, 10, 49, 50, 59, 60, 119 and 120.
C5_MilestoneFor ==
    res # NULL =>
        /\ arg < 50 => (res % 10 = 0 /\ res <= arg /\ arg < res + 10)
        /\ arg >= 50 => (res % 20 = 0 /\ res <= arg /\ arg < res + 20)
        /\ arg = 9 => res = 0
        /\ arg = 10 => res = 10
        /\ arg = 49 => res = 40
        /\ arg = 50 => res = 40
        /\ arg = 59 => res = 40
        /\ arg = 60 => res = 60
        /\ arg = 119 => res = 100
        /\ arg = 120 => res = 120

C5_Witness == arg = 50 /\ res = 40

\* C6: after the post of a notification, delivered or not, the invocation
\* goes on to the UPDATE of that event's row.
C6_UpdateAttemptedAfterFailedSend ==
    [][\A c \in CycleIds :
        (cyc[c].pc = "post" /\ Steps(c)) => cyc'[c].pc = "updateMilestone"]_vars

\* C7: a failed SELECT for one event does not end the invocation while
\* rows are left: it goes on to the next row.
C7_ReadFailureIsolated ==
    [][\A c \in CycleIds :
        (cyc[c].pc = "select" /\ Steps(c) /\ RowsLeft(c))
        => cyc'[c].pc \notin {"failed", "done"}]_vars

\* C8: after an INSERT or UPDATE, failed or not, the invocation goes on to
\* the next row of the same rows, or returns after the last row.
C8_WriteFailureIsolated ==
    [][\A c \in CycleIds :
        (cyc[c].pc \in Writing /\ Steps(c))
        => IF RowsLeft(c)
           THEN /\ cyc'[c].pc = "select"
                /\ cyc'[c].idx = cyc[c].idx + 1
                /\ cyc'[c].snap = cyc[c].snap
           ELSE cyc'[c].pc = "done"]_vars

C8_Witness ==
    /\ faults = 1
    /\ store["a"] = NoRecord
    /\ lastSnap # NoSnapshot
    /\ \E c \in CycleIds :
        /\ cyc[c].pc = "select"
        /\ cyc[c].idx = 2
        /\ \A d \in CycleIds \ {c} : cyc[d].pc \in {"idle", "fetch"}

\* C9: at most one invocation of checkMilestones is under way at any time.
C9_CyclesNeverOverlap ==
    Cardinality({c \in CycleIds : cyc[c].pc \in Active}) <= 1

\* C10: while an invocation is between its read of an event's row and its
\* write of it, no other invocation reads or writes the row of that event.
C10_OneMutationInFlight ==
    [][\A c, d \in CycleIds :
        (/\ c # d
         /\ cyc[c].pc \in InFlight
         /\ cyc[d].pc \in Writing \cup {"select"}
         /\ CurEvent(d) = CurEvent(c))
        => ~Steps(d)]_vars

\* C11: no step lowers the last_milestone_notified of a tracked event.
C11_MilestoneNeverRegresses ==
    [][\A e \in Events :
        (store[e] # NoRecord /\ store'[e] # NoRecord)
        => store'[e].milestone >= store[e].milestone]_vars

\* C12: last_milestone_notified changes only in the INSERT of a first
\* sighting and in the UPDATE after a notification, and each of these
\* writes stores the milestone of the count it stores as last_known_count,
\* which is therefore not below it.
C12_MilestoneWrittenWithItsCount ==
    [][/\ \A c \in CycleIds :
            (/\ cyc[c].pc \in {"insert", "updateMilestone"}
             /\ Steps(c)
             /\ store' # store)
            => /\ store'[CurEvent(c)].count = CurCount(c)
               /\ store'[CurEvent(c)].milestone
                    = getNextMilestone(store'[CurEvent(c)].count)
               /\ store'[CurEvent(c)].milestone <= store'[CurEvent(c)].count
       /\ \A e \in Events :
            (\/ store[e] = NoRecord /\ store'[e] # NoRecord
             \/ /\ store[e] # NoRecord
                /\ store'[e] # NoRecord
                /\ store'[e].milestone # store[e].milestone)
            => \E c \in CycleIds :
                /\ cyc[c].pc \in {"insert", "updateMilestone"}
                /\ Steps(c)
                /\ CurEvent(c) = e]_vars

C12_Witness ==
    /\ store["a"] # NoRecord
    /\ store["a"].count = 61
    /\ store["a"].milestone = 60
    /\ store["a"].notified_at # NULL

\* C13: a delivered notification is followed by the UPDATE of the event's
\* row, which, unless it fails, sets last_known_count to the count,
\* last_milestone_notified to the milestone of the count and
\* last_notified_at to the current time.
C13_NotifyPersists ==
    [][\A c \in CycleIds :
        /\ (cyc[c].pc = "post" /\ Steps(c) /\ sent' # sent)
           => cyc'[c].pc = "updateMilestone" /\ cyc'[c].idx = cyc[c].idx
        /\ (/\ cyc[c].pc = "updateMilestone"
            /\ Steps(c)
            /\ faults' = faults
            /\ store[CurEvent(c)] # NoRecord)
           => /\ store'[CurEvent(c)].count = CurCount(c)
              /\ store'[CurEvent(c)].milestone = getNextMilestone(CurCount(c))
              /\ store'[CurEvent(c)].notified_at = now
              /\ store'[CurEvent(c)].updated_at = now]_vars

C13_Witness ==
    /\ store["a"] # NoRecord
    /\ store["a"].count = 100
    /\ store["a"].milestone = 100
    /\ store["a"].notified_at = 1
    /\ sent["a"] = <<100>>

\* The loop body's next await for a stored row and a fresh count.
Branch(prev_count, prev_milestone, count) ==
    Decide([IdleCycle EXCEPT !.pc = "select"],
           [count |-> prev_count, milestone |-> prev_milestone,
            notified_at |-> NULL, updated_at |-> 0],
           count).pc

\* C14: for a tracked event with no notification due and a count other
\* than the stored one, the invocation goes to the count-only UPDATE, which
\* sends nothing and, unless it fails, sets last_known_count to the count
\* and leaves last_milestone_notified and last_notified_at as they are;
\* (45, 40) with count 52 takes this branch.
C14_UpdateOnly ==
    /\ [][\A c \in CycleIds :
            /\ (/\ cyc[c].pc = "select"
                /\ Steps(c)
                /\ cyc'[c].pc # "failed"
                /\ store[CurEvent(c)] # NoRecord
                /\ ~NotifyRule(store[CurEvent(c)].milestone, CurCount(c))
                /\ CurCount(c) # store[CurEvent(c)].count)
               => cyc'[c].pc = "updateCount" /\ cyc'[c].idx = cyc[c].idx
            /\ (cyc[c].pc = "updateCount" /\ Steps(c))
               => /\ sent' = sent
                  /\ \A e \in Events \ {CurEvent(c)} : store'[e] = store[e]
                  /\ IF faults' = faults
                     THEN /\ store'[CurEvent(c)].count = CurCount(c)
                          /\ store'[CurEvent(c)].milestone
                                = store[CurEvent(c)].milestone
                          /\ store'[CurEvent(c)].notified_at
                                = store[CurEvent(c)].notified_at
                     ELSE store' = store]_vars
    /\ Branch(45, 40, 52) = "updateCount"

C14_Witness ==
    /\ store["a"] # NoRecord
    /\ store["a"].count = 52
    /\ store["a"].milestone = 40
    /\ store["a"].updated_at = 1
    /\ sent["a"] = <<>>

\* C15: for a tracked event with no notification due and the stored count,
\* the invocation goes straight to the next row (or returns): it issues no
\* INSERT, no UPDATE and no post, and the step changes no row and sends
\* nothing.
C15_Ignore ==
    [][\A c \in CycleIds :
        (/\ cyc[c].pc = "select"
         /\ Steps(c)
         /\ cyc'[c].pc # "failed"
         /\ store[CurEvent(c)] # NoRecord
         /\ ~NotifyRule(store[CurEvent(c)].milestone, CurCount(c))
         /\ CurCount(c) = store[CurEvent(c)].count)
        => /\ store' = store
           /\ sent' = sent
           /\ IF RowsLeft(c)
              THEN /\ cyc'[c].pc = "select"
                   /\ cyc'[c].idx = cyc[c].idx + 1
              ELSE cyc'[c].pc = "done"]_vars

C15_Witness ==
    /\ now = 1
    /\ faults = 0
    /\ cyc[0].pc = "idle"
    /\ cyc[1].pc = "select"
    /\ cyc[1].idx = 2
    /\ store["a"] # NoRecord
    /\ store["a"].count = cyc[1].snap["a"]
    /\ store["a"].updated_at = 0
    /\ sent["a"] = <<>>

\* C16: no notification is delivered with a count below 10.
C16_NoNotifyBelowTen ==
    \A e \in Events : \A i \in 1..Len(sent[e]) : sent[e][i] >= 10

C16_Witness ==
    /\ store["a"] # NoRecord
    /\ store["a"].count = 9
    /\ store["a"].milestone = 40
    /\ store["a"].updated_at = 1
    /\ sent["a"] = <<>>

\* The process and its schedule are as they were, and a minute that passes
\* starts the invocation of that minute.
LoopGoesOn ==
    /\ phase' = phase
    /\ scheduled' = scheduled
    /\ scheduled

NextCycleStarts ==
    (now' = now + 1 /\ scheduled)
        => cyc'[now + 1].pc = (IF now + 1 >= Cutoff THEN "skipped" ELSE "fetch")

\* C17: a row, once in the table, is in the table in every later state; a
\* row appears only by the INSERT of an invocation that found none, with
\* the values of that INSERT; an INSERT for an event that has a row by then
\* changes nothing.
C17_CreatedOnceNeverDeleted ==
    [][/\ \A e \in Events :
            /\ store[e] # NoRecord => store'[e] # NoRecord
            /\ (store[e] = NoRecord /\ store'[e] # NoRecord)
               => \E c \in CycleIds :
                    /\ cyc[c].pc = "insert"
                    /\ Steps(c)
                    /\ CurEvent(c) = e
                    /\ store'[e] = InsertedRow(c)
       /\ \A c \in CycleIds :
            (/\ cyc[c].pc = "insert"
             /\ Steps(c)
             /\ store[CurEvent(c)] # NoRecord)
            => store' = store]_vars

C17_Witness ==
    /\ faults = 0
    /\ store["a"] # NoRecord
    /\ store["a"].count = 9
    /\ store["a"].milestone = 0
    /\ store["a"].notified_at = NULL
    /\ sent["a"] = <<>>
    /\ \E c \in CycleIds :
        /\ cyc[c].pc = "select"
        /\ cyc[c].idx = 2
        /\ cyc[c].snap["a"] = 45

\* C18: when the fetch fails the invocation returns at once, having read
\* and written no row and sent nothing, and does nothing afterwards; the
\* schedule stays in place and the next minute starts its invocation.
C18_SourceFailureAbandonsCycle ==
    [][/\ \A c \in CycleIds :
            /\ (cyc[c].pc = "fetch" /\ Steps(c) /\ faults' # faults)
               => /\ cyc'[c].pc = "done"
                  /\ store' = store
                  /\ sent' = sent
                  /\ LoopGoesOn
            /\ cyc[c].pc = "done" => cyc'[c] = cyc[c]
       /\ NextCycleStarts]_vars

C18_Witness ==
    /\ faults = 1
    /\ lastSnap = NoSnapshot
    /\ cyc[0].pc = "done"
    /\ cyc[1].pc = "fetch"
    /\ cyc[2].pc = "idle"

\* C19: when the post fails the invocation goes on with the next row of
\* the same fetch (or returns after the last one), the schedule stays in
\* place and the next minute starts its invocation.
C19_PostFailureCaught ==
    [][/\ \A c \in CycleIds :
            (cyc[c].pc = "post" /\ Steps(c) /\ faults' # faults)
            => /\ IF RowsLeft(c)
                  THEN /\ cyc'[c].pc = "select"
                       /\ cyc'[c].idx = cyc[c].idx + 1
                       /\ cyc'[c].snap = cyc[c].snap
                  ELSE cyc'[c].pc = "done"
               /\ LoopGoesOn
       /\ NextCycleStarts]_vars

C19_Witness ==
    /\ faults = 1
    /\ sent["a"] = <<>>
    /\ store["a"] # NoRecord
    /\ \E c \in CycleIds :
        /\ cyc[c].pc = "select"
        /\ cyc[c].idx = 2
        /\ NotifyRule(store["a"].milestone, cyc[c].snap["a"])
        /\ \A d \in CycleIds \ {c} : cyc[d].pc \in {"idle", "fetch"}

\* C20: a delivered notification carries the count of the row the
\* invocation is at, and nothing else is ever delivered.
C20_PayloadIsExactCount ==
    [][sent' # sent
        => \E c \in CycleIds :
            /\ cyc[c].pc = "post"
            /\ Steps(c)
            /\ sent' = [sent EXCEPT ![CurEvent(c)] = Append(@, CurCount(c))]
      ]_vars

C20_Witness ==
    /\ sent["a"] = <<61>>
    /\ getNextMilestone(61) # 61

\* C21: an invocation that begins at or after the cutoff returns at once and
\* never fetches, reads, writes or posts; a process whose startup reaches the
\* guard at or after the cutoff schedules no job and runs no invocation, and
\* from then on nothing changes but the time.
C21_CutoffSuppresses ==
    [][/\ \A c \in CycleIds :
            /\ (cyc[c].pc = "idle" /\ cyc'[c].pc # "idle" /\ now' >= Cutoff)
               => cyc'[c].pc = "skipped"
            /\ cyc[c].pc = "skipped"
               => cyc'[c] = cyc[c]
       /\ (phase = "boot" /\ phase' # "boot" /\ now >= Cutoff)
            => /\ phase' = "nojobs"
               /\ ~scheduled'
               /\ \A c \in CycleIds : cyc'[c] = IdleCycle
       /\ phase = "nojobs"
            => /\ phase' = "nojobs"
               /\ ~scheduled'
               /\ cyc' = cyc
               /\ store' = store
               /\ sent' = sent]_vars

C21_Witness ==
    /\ now = Cutoff
    /\ phase = "running"
    /\ cyc[Cutoff].pc = "skipped"
    /\ cyc[0].pc = "done"

\* C22: getNextMilestone is non-decreasing: the milestone of a count is at
\* least the milestone of every smaller count.
C22_MilestoneMonotonic ==
    res # NULL => \A a \in 0..arg : getNextMilestone(a) <= res

C22_Witness ==
    /\ arg = 59
    /\ res = 40
    /\ getNextMilestone(49) = 40

\* C23: getNextMilestone is idempotent: the milestone of a milestone is that
\* milestone.
C23_MilestoneIdempotent ==
    res # NULL => getNextMilestone(res) = res

C23_Witness ==
    /\ arg = 55
    /\ res = 40

\* Invocation c leaves the row it is at: the loop moves on or the function
\* returns.
LeavesRow(c) ==
    \/ cyc'[c].pc = "done"
    \/ cyc'[c].pc = "select" /\ cyc'[c].idx = cyc[c].idx + 1

\* C24, as stated: whenever an invocation is through with a tracked event,
\* no call having failed, the event's last_updated_at is the current time,
\* also when the count is unchanged.
C24_UpdatedAtOnEveryObservation ==
    [][\A c \in CycleIds :
        (/\ cyc[c].pc \in {"select", "updateMilestone", "updateCount"}
         /\ Steps(c)
         /\ LeavesRow(c)
         /\ faults' = faults
         /\ store[CurEvent(c)] # NoRecord)
        => store'[CurEvent(c)].updated_at = now]_vars

\* C24, amended: every INSERT and UPDATE that changes a row sets its
\* last_updated_at to the current time, with or without a notification; an
\* invocation that finds the stored count and nothing to announce leaves
\* last_updated_at as it was.
C24_UpdatedAtOnEveryWrite ==
    [][/\ \A e \in Events :
            store'[e] # store[e] => store'[e].updated_at = now
       /\ \A c \in CycleIds :
            /\ (/\ cyc[c].pc \in {"updateMilestone", "updateCount"}
                /\ Steps(c)
                /\ faults' = faults)
               => store'[CurEvent(c)].updated_at = now
            /\ (/\ cyc[c].pc = "insert"
                /\ Steps(c)
                /\ faults' = faults
                /\ store[CurEvent(c)] = NoRecord)
               => store'[CurEvent(c)].updated_at = now
            /\ (/\ cyc[c].pc = "select"
                /\ Steps(c)
                /\ LeavesRow(c)
                /\ store[CurEvent(c)] # NoRecord)
               => store'[CurEvent(c)].updated_at
                    = store[CurEvent(c)].updated_at]_vars

C24_Witness ==
    /\ now = 1
    /\ faults = 0
    /\ cyc[0].pc = "idle"
    /\ cyc[1].pc = "done"
    /\ \A e \in Events :
        /\ store[e] # NoRecord
        /\ store[e].count = lastSnap[e]
        /\ store[e].updated_at = 0

\* C25: when an invocation returns after its last row, no call of any
\* invocation having failed and its last INSERT not rejected, every event of the rows it fetched has a row in
\* the table whose last_known_count is the count it fetched.
C25_AllEventsTrackedAtCount ==
    [][\A c \in CycleIds :
        (/\ cyc[c].pc \in {"select"} \cup Writing
         /\ Steps(c)
         /\ cyc'[c].pc = "done"
         /\ faults' = 0
         /\ ~(cyc[c].pc = "insert" /\ store[CurEvent(c)] # NoRecord))
        => \A e \in Events :
            cyc[c].snap[e] > 0
                => /\ store'[e] # NoRecord
                   /\ store'[e].count = cyc[c].snap[e]]_vars

\* C26: the UPDATE of the Notify branch is reached only by the step in which
\* the post is delivered, and that step writes nothing; a failed post
\* changes no row, the invocation leaves the row without an UPDATE, and a
\* row that called for the notification calls for it again when read with
\* the same count.
C26_PersistOnlyAfterSend ==
    [][\A c \in CycleIds :
        /\ (cyc'[c].pc = "updateMilestone" /\ Steps(c))
           => /\ cyc[c].pc = "post"
              /\ sent' = [sent EXCEPT ![CurEvent(c)] = Append(@, CurCount(c))]
              /\ store' = store
        /\ (cyc[c].pc = "post" /\ Steps(c) /\ faults' # faults)
           => /\ store' = store
              /\ sent' = sent
              /\ LeavesRow(c)
              /\ NotifyRule(store[CurEvent(c)].milestone, CurCount(c))
                 => Branch(store'[CurEvent(c)].count,
                           store'[CurEvent(c)].milestone,
                           CurCount(c)) = "post"]_vars

C26_Witness ==
    /\ now = 1
    /\ faults = 1
    /\ sent["a"] = <<>>
    /\ store["a"] # NoRecord
    /\ store["a"].updated_at = 0
    /\ cyc[0].pc = "select"
    /\ cyc[0].idx = 2
    /\ cyc[1].pc = "post"
    /\ cyc[1].idx = 1
    /\ cyc[1].snap["a"] = cyc[0].snap["a"]

\* The record of e holds the standing count and its milestone.
Settled(e) ==
    /\ store[e] # NoRecord
    /\ store[e].count = Steady[e]
    /\ store[e].milestone = getNextMilestone(Steady[e])

\* C27: with the warehouse standing still, once no call fails any more and
\* an invocation is yet to fetch, a tracked event whose standing count
\* calls for a notification is eventually notified and its
\* last_milestone_notified becomes the milestone of that count; once the
\* record holds that count and milestone it keeps them, and every invocation
\* that reads it goes on without a post or a write.
C27_EventuallyNotifiedThenQuiet ==
    /\ \A e \in Events :
        (/\ faults = MaxFaults
         /\ \E c \in CycleIds : cyc[c].pc = "fetch"
         /\ store[e] # NoRecord
         /\ NotifyRule(store[e].milestone, Steady[e]))
        ~> (sent[e] # <<>> /\ Settled(e))
    /\ [][\A e \in Events :
            Settled(e)
            => /\ Settled(e)'
               /\ \A c \in CycleIds :
                    (/\ cyc[c].pc = "select"
                     /\ CurEvent(c) = e
                     /\ Steps(c)
                     /\ cyc'[c].pc # "failed")
                    => LeavesRow(c) /\ store' = store /\ sent' = sent]_vars

C27_Witness ==
    /\ faults = MaxFaults
    /\ now = 1
    /\ cyc[0].pc = "done"
    /\ cyc[1].pc = "done"
    /\ sent["a"] = <<140>>
    /\ Settled("a")
    /\ store["a"].notified_at = 1

\* last_milestone_notified <= milestone of last_known_count <= last_known_count.
MilestoneBound(row) ==
    /\ row.milestone <= getNextMilestone(row.count)
    /\ getNextMilestone(row.count) <= row.count

====
